---------------------------- MODULE Spec2Model ----------------------------
(***************************************************************************)
(* A model of perl_io.py (Python 2): the PerlIO wrapper that opens a file  *)
(* or a pipe from a Perl-style descriptor string.                          *)
(*                                                                         *)
(* Strings are sequences of one-character strings.  An exception that      *)
(* leaves a method is recorded in the variable exc; the value "none" means *)
(* that the last call returned normally.                                   *)
(***************************************************************************)
EXTENDS Integers, Sequences, FiniteSets, TLC

(***************************************************************************)
(* Bounds of the model.                                                    *)
(***************************************************************************)
MaxLen == 4        \* longest descriptor given to the constructor
MaxPath == 2       \* longest file path of a file session run
MaxSessions == 2   \* write/append sessions before the read-back
MaxLines == 1      \* lines written in one session
PipeCap == 2       \* capacity of an OS pipe, in chunks
MaxData == 3       \* most chunks a process writes to one stream

\* The characters descriptors are made of.
Alphabet == {"|", ">", "<", "+", "-", " ", "f", "'"}

(***************************************************************************)
(* Python's str operations used by the module.                             *)
(***************************************************************************)
\* string.whitespace, the characters str.strip() removes
Whitespace == {" ", "\t", "\n", "\r", "\f"}

RECURSIVE lstrip(_)
lstrip(s) ==
    IF s # <<>> /\ Head(s) \in Whitespace THEN lstrip(Tail(s)) ELSE s

RECURSIVE rstrip(_)
rstrip(s) ==
    IF s # <<>> /\ s[Len(s)] \in Whitespace
    THEN rstrip(SubSeq(s, 1, Len(s) - 1))
    ELSE s

\* str.strip()
strip(s) == rstrip(lstrip(s))

\* s[n:]
From(s, n) == SubSeq(s, n + 1, Len(s))

\* s[0:n]
Prefix(s, n) == SubSeq(s, 1, IF n < Len(s) THEN n ELSE Len(s))

\* The backquote character, which a TLA+ string cannot hold.
Backquote == "backquote"

\* re.search(r'(\||<|>|backquote|;)', cmd): does cmd hold a shell special character
ShellChars == {"|", "<", ">", Backquote, ";"}

HasShellChar(cmd) == \E i \in 1..Len(cmd) : cmd[i] \in ShellChars

(***************************************************************************)
(* PerlIO._parse_command                                                   *)
(***************************************************************************)
parse_command(cmd) ==
    IF HasShellChar(cmd)
    THEN <<"s", "h", " ", "-", "c", " ", "'">> \o cmd \o <<"'">>
    ELSE cmd

(***************************************************************************)
(* shlex.split(cmd): the POSIX-mode lexer with whitespace_split set and no *)
(* comment characters, as _rd_open_pipe and _wr_open_pipe call it.  The    *)
(* result is the sequence of tokens, or the ValueError raised for an       *)
(* unclosed quote or a trailing escape character.                          *)
(***************************************************************************)
Tokens(ts) == [error |-> "none", tokens |-> ts]
ValueError == [error |-> "ValueError", tokens |-> <<>>]

Quotes == {"'", "\""}
Escape == {"\\"}
EscapedQuotes == {"\""}

\* st is the lexer's state: " " between tokens, "a" inside a word, a quote
\* character inside a quotation, the escape character after it was read.
\* tok is the token being read, quoted whether a quotation was seen in it,
\* est the state to return to after an escape, out the tokens read so far.
RECURSIVE Lex(_, _, _, _, _, _, _)
Lex(s, i, st, tok, quoted, est, out) ==
    LET emit == IF tok # <<>> \/ quoted THEN Append(out, tok) ELSE out
        c == s[i]
    IN  IF i > Len(s)
        THEN CASE st \in Quotes -> ValueError
               [] st \in Escape -> ValueError
               [] OTHER -> Tokens(emit)
        ELSE CASE st = " " ->
                    IF c \in Whitespace
                    THEN Lex(s, i + 1, " ", <<>>, FALSE, " ", emit)
                    ELSE IF c \in Escape THEN Lex(s, i + 1, c, tok, quoted, "a", out)
                    ELSE IF c \in Quotes THEN Lex(s, i + 1, c, tok, quoted, est, out)
                    ELSE Lex(s, i + 1, "a", <<c>>, quoted, est, out)
               [] st \in Quotes ->
                    IF c = st THEN Lex(s, i + 1, "a", tok, TRUE, est, out)
                    ELSE IF c \in Escape /\ st \in EscapedQuotes
                    THEN Lex(s, i + 1, c, tok, TRUE, st, out)
                    ELSE Lex(s, i + 1, st, Append(tok, c), TRUE, est, out)
               [] st \in Escape ->
                    LET kept == IF est \in Quotes /\ c # st /\ c # est
                                THEN Append(tok, st) ELSE tok
                    IN  Lex(s, i + 1, est, Append(kept, c), quoted, est, out)
               [] OTHER ->   \* st = "a"
                    IF c \in Whitespace
                    THEN Lex(s, i + 1, " ", <<>>, FALSE, " ", emit)
                    ELSE IF c \in Quotes THEN Lex(s, i + 1, c, tok, quoted, est, out)
                    ELSE IF c \in Escape THEN Lex(s, i + 1, c, tok, quoted, "a", out)
                    ELSE Lex(s, i + 1, "a", Append(tok, c), quoted, est, out)

shlex_split(cmd) == Lex(cmd, 1, " ", <<>>, FALSE, " ", <<>>)



(***************************************************************************)
(* The state.                                                              *)
(***************************************************************************)
VARIABLES
    pc,         \* where the calling program is
    exc,        \* the exception that left the last call, or "none"
    open_str,   \* the descriptor the caller gives to the constructor
    to_write,   \* the lines the caller has still to write to the wrapper
    result,     \* the lines the caller read from the wrapper, or Unread
    observed,   \* what the caller's read of the property err_fo returned
    fo,         \* self._fo: "None", or the stream it is bound to
    fo_closed,  \* whether the stream self._fo has been closed
    fname,      \* the path of the file self._fo is opened on
    fmode,      \* the mode it is opened in
    wbuf,       \* lines written to self._fo and not yet flushed
    proc,       \* self._proc: "None" or "Popen"
    argv,       \* the argument vector given to subprocess.Popen
    diag,       \* the diagnostics printed on sys.stderr
    fs,         \* the file system: the content of each existing file
    locked,     \* the paths the operating system refuses to open
    executable, \* whether the program of a command can be executed
    plan,       \* the chunks such a program writes to its output and error
    phase,      \* a file session run: "sessions", then "readback"
    path,       \* the path P of a file session run
    sessions,   \* the sessions of the run begun so far
    expected,   \* what the sessions of the run wrote to P, in order
    lineno,     \* the number of the last line the run wrote
    child,      \* the child process: "none", "running", "exited", "reaped"
    child_op,   \* the system call the child is in, or "idle"
    out_left,   \* chunks the child has still to write to its standard output
    err_left,   \* chunks the child has still to write to its standard error
    consumed,   \* chunks the child read from its standard input
    in_pipe,    \* chunks in the pipe to the child's standard input
    out_pipe,   \* chunks in the pipe from the child's standard output
    err_pipe,   \* chunks in the pipe from the child's standard error
    in_open,    \* whether the parent's end of the child's input is open
    written     \* chunks the caller wrote to the child's standard input

caller == <<open_str, to_write, result, observed>>
object == <<fo, fo_closed, fname, fmode, wbuf, proc, argv>>
system == <<diag, fs, locked, executable, plan>>
run == <<phase, path, sessions, expected, lineno>>
kid == <<child, child_op, out_left, err_left, consumed>>
pipes == <<in_pipe, out_pipe, err_pipe, in_open, written>>
vars == <<pc, exc, caller, object, system, run, kid, pipes>>

\* All strings over Alphabet of length 1 to n.
Strings(n) == UNION {[1..k -> Alphabet] : k \in 1..n}

\* The descriptors the constructor is given.
Descriptors == Strings(MaxLen)

(***************************************************************************)
(* PerlIO.__init__: the branch the constructor takes on a descriptor, as   *)
(* the method it calls with its arguments.  Indexing a string past its end *)
(* raises IndexError.                                                      *)
(***************************************************************************)
Call(c, a, m) == [call |-> c, arg |-> a, mode |-> m]

\* Dispatch with the test for ">>" lost: an append truncates
DispatchNoAppend(str) ==
    LET s == strip(str)
    IN  IF s = <<>> THEN Call("IndexError", <<>>, "")
        ELSE IF s[Len(s)] = "|"
        THEN Call("_rd_open_pipe", SubSeq(s, 1, Len(s) - 1), "")
        ELSE IF s[1] = "|" THEN Call("_wr_open_pipe", From(s, 1), "")
        ELSE IF s[1] = ">"
        THEN IF Len(s) < 2 THEN Call("IndexError", <<>>, "")
             ELSE IF s[2] = ">" THEN Call("_open_file", From(s, 2), "w")
             ELSE Call("_open_file", From(s, 1), "w")
        ELSE IF s[1] = "<" THEN Call("_open_file", From(s, 1), "r")
        ELSE IF Prefix(s, 2) = <<"+", ">">> \/ Prefix(s, 2) = <<"+", "<">>
        THEN Call("_open_file", From(s, 2), "r+")
        ELSE IF s = <<"-">> THEN Call("sys.stdin", <<>>, "")
        ELSE IF s = <<">", "-">> THEN Call("sys.stdout", <<>>, "")
        ELSE Call("_open_file", s, "r")

Dispatch(str) ==
    LET s == strip(str)
    IN  IF s = <<>> THEN Call("IndexError", <<>>, "")         \* open_str[-1]
        ELSE IF s[Len(s)] = "|"
        THEN Call("_rd_open_pipe", SubSeq(s, 1, Len(s) - 1), "")
        ELSE IF s[1] = "|" THEN Call("_wr_open_pipe", From(s, 1), "")
        ELSE IF s[1] = ">"
        THEN IF Len(s) < 2 THEN Call("IndexError", <<>>, "")  \* open_str[1]
             ELSE IF s[2] = ">" THEN Call("_open_file", From(s, 2), "a")
             ELSE Call("_open_file", From(s, 1), "w")
        ELSE IF s[1] = "<" THEN Call("_open_file", From(s, 1), "r")
        ELSE IF Prefix(s, 2) = <<"+", ">">> \/ Prefix(s, 2) = <<"+", "<">>
        THEN Call("_open_file", From(s, 2), "r+")
        ELSE IF s = <<"-">> THEN Call("sys.stdin", <<>>, "")
        ELSE IF s = <<">", "-">> THEN Call("sys.stdout", <<>>, "")
        ELSE Call("_open_file", s, "r")

(***************************************************************************)
(* The built-in open(file, mode) on the file system f with the refused     *)
(* paths l: whether it raises IOError, and the file system it leaves.      *)
(***************************************************************************)
OpenFails(file, mode, f, l) ==
    \/ file = <<>>
    \/ file \in l
    \/ mode \in {"r", "r+"} /\ file \notin DOMAIN f

OpenEffect(file, mode, f) ==
    IF mode = "w" \/ (mode = "a" /\ file \notin DOMAIN f)
    THEN [p \in DOMAIN f \cup {file} |-> IF p = file THEN <<>> ELSE f[p]]
    ELSE f

\* subprocess.Popen(args): an empty argument vector raises IndexError, a
\* program that cannot be executed raises OSError.
PopenRaises(args, found) ==
    IF args = <<>> THEN "IndexError"
    ELSE IF ~found THEN "OSError"
    ELSE "none"

(***************************************************************************)
(* The methods the constructor calls.  Each gives the wrapper it leaves:   *)
(* the fields _fo and _proc, the exception that leaves the method (exc),   *)
(* the diagnostic it prints and the file system after it.  "except         *)
(* IOError" catches IOError alone: in Python 2 OSError, ValueError and     *)
(* IndexError are no subclasses of it.                                     *)
(***************************************************************************)
Wrapper(f, name, mode, p, args, e, d, newfs) ==
    [fo |-> f, fname |-> name, fmode |-> mode, proc |-> p, argv |-> args,
     exc |-> e, diag |-> d, fs |-> newfs]

\* _open_file without its except clause: the IOError of open() leaves it
open_file_uncaught(file0, mode, f, l) ==
    LET file == strip(file0)
    IN  IF OpenFails(file, mode, f, l)
        THEN Wrapper("None", <<>>, "", "None", <<>>, "IOError", <<>>, f)
        ELSE Wrapper("file", file, mode, "None", <<>>, "none", <<>>,
                     OpenEffect(file, mode, f))

\* PerlIO._open_file
open_file(file0, mode, f, l) ==
    LET file == strip(file0)
    IN  IF OpenFails(file, mode, f, l)
        THEN Wrapper("None", <<>>, "", "None", <<>>, "none", <<"failed to open">>, f)
        ELSE Wrapper("file", file, mode, "None", <<>>, "none", <<>>,
                     OpenEffect(file, mode, f))

\* what _rd_open_pipe and _wr_open_pipe share: stream is the end of the
\* child self._fo is bound to, found whether the program can be executed
open_pipe(cmd0, stream, found, f) ==
    LET cmd == parse_command(cmd0)
        split == shlex_split(cmd)
        args == split.tokens
        e == IF split.error # "none" THEN split.error
             ELSE PopenRaises(args, found)
    IN  IF e = "none"
        THEN Wrapper(stream, <<>>, "", "Popen", args, "none", <<>>, f)
        ELSE IF e = "IOError"
        THEN Wrapper("None", <<>>, "", "None", <<>>, "none",
                     <<"failed to open pipe">>, f)
        ELSE Wrapper("None", <<>>, "", "None", <<>>, e, <<>>, f)

\* PerlIO._rd_open_pipe
rd_open_pipe(cmd, found, f) == open_pipe(cmd, "proc.stdout", found, f)

\* PerlIO._wr_open_pipe
wr_open_pipe(cmd, found, f) == open_pipe(cmd, "proc.stdin", found, f)

\* PerlIO.__init__
PerlIO(str, found, f, l) ==
    LET c == Dispatch(str)
    IN  CASE c.call = "_rd_open_pipe" -> rd_open_pipe(c.arg, found, f)
          [] c.call = "_wr_open_pipe" -> wr_open_pipe(c.arg, found, f)
          [] c.call = "_open_file" -> open_file(c.arg, c.mode, f, l)
          [] c.call = "sys.stdin" ->
                Wrapper("sys.stdin", <<>>, "", "None", <<>>, "none", <<>>, f)
          [] c.call = "sys.stdout" ->
                Wrapper("sys.stdout", <<>>, "", "None", <<>>, "none", <<>>, f)
          [] OTHER -> Wrapper("None", <<>>, "", "None", <<>>, c.call, <<>>, f)

\* the caller has read nothing yet; it has read lines ls
Unread == [read |-> FALSE, lines |-> <<>>]
Read(ls) == [read |-> TRUE, lines |-> ls]
NoStream == "no stream"

(***************************************************************************)
(* pio = PerlIO(open_str): the caller constructs a wrapper.  When the      *)
(* constructor raises, the caller gets no wrapper.  A child that is        *)
(* spawned starts on what its program has to write.                        *)
(***************************************************************************)
New ==
    /\ pc = "init"
    /\ LET w == PerlIO(open_str, executable, fs, locked)
       IN  /\ fo' = w.fo
           /\ fname' = w.fname
           /\ fmode' = w.fmode
           /\ proc' = w.proc
           /\ argv' = w.argv
           /\ exc' = w.exc
           /\ diag' = diag \o w.diag
           /\ fs' = w.fs
           /\ pc' = IF w.exc = "none" THEN "ready" ELSE "raised"
           /\ child' = IF w.proc = "Popen" THEN "running" ELSE "none"
           /\ out_left' = IF w.proc = "Popen" THEN plan.out ELSE 0
           /\ err_left' = IF w.proc = "Popen" THEN plan.err ELSE 0
           /\ in_open' = (w.fo = "proc.stdin")
    /\ fo_closed' = FALSE
    /\ wbuf' = <<>>
    /\ child_op' = "idle"
    /\ consumed' = 0
    /\ in_pipe' = 0
    /\ out_pipe' = 0
    /\ err_pipe' = 0
    /\ written' = 0
    /\ UNCHANGED <<caller, locked, executable, plan, run>>

(***************************************************************************)
(* What the caller does with the wrapper.                                  *)
(***************************************************************************)
\* the method call on self._fo or self._proc raises exception e; p is the
\* place the caller is left at
Raise(e, p) ==
    /\ exc' = e
    /\ pc' = p
    /\ UNCHANGED <<caller, object, system, run, kid, pipes>>

Writable == fo = "file" /\ fmode \in {"w", "a", "r+"}
Readable == fo = "file" /\ fmode \in {"r", "r+"}

\* print >> pio.fo, line: the caller writes its next line.  A write to a
\* full pipe blocks.
WriteLine ==
    /\ pc = "ready"
    /\ to_write # <<>>
    /\ CASE fo = "None" -> Raise("AttributeError", "crashed")
         [] Writable ->
                /\ wbuf' = Append(wbuf, Head(to_write))
                /\ to_write' = Tail(to_write)
                /\ UNCHANGED <<pc, exc, open_str, result, observed, fo,
                               fo_closed, fname, fmode, proc, argv, system,
                               run, kid, pipes>>
         [] fo = "sys.stdout" ->
                /\ to_write' = Tail(to_write)
                /\ UNCHANGED <<pc, exc, open_str, result, observed, object,
                               system, run, kid, pipes>>
         [] fo = "proc.stdin" ->
                /\ in_pipe < PipeCap
                /\ in_pipe' = in_pipe + 1
                /\ written' = written + 1
                /\ to_write' = Tail(to_write)
                /\ UNCHANGED <<pc, exc, open_str, result, observed, object,
                               system, run, kid, out_pipe, err_pipe, in_open>>
         [] OTHER -> Raise("IOError", "crashed")

\* what a read of the standard input may give
StdinInputs == {<<>>, <<0>>}

\* for line in pio.fo.xreadlines(): the caller reads the stream to its end.
\* On the child's standard output the loop goes on in ReadChunk and ReadEOF.
ReadAll ==
    /\ pc = "ready"
    /\ to_write = <<>>
    /\ result = Unread
    /\ CASE fo = "None" -> Raise("AttributeError", "crashed")
         [] Readable ->
                /\ result' = Read(fs[fname])
                /\ UNCHANGED <<pc, exc, open_str, to_write, observed, object,
                               system, run, kid, pipes>>
         [] fo = "sys.stdin" ->
                /\ result' \in {Read(ls) : ls \in StdinInputs}
                /\ UNCHANGED <<pc, exc, open_str, to_write, observed, object,
                               system, run, kid, pipes>>
         [] fo = "proc.stdout" ->
                /\ result' = Read(<<>>)
                /\ pc' = "reading"
                /\ UNCHANGED <<exc, open_str, to_write, observed, object,
                               system, run, kid, pipes>>
         [] OTHER -> Raise("IOError", "crashed")

\* the loop reads a chunk; it blocks while the pipe is empty and the child
\* has it open
ReadChunk ==
    /\ pc = "reading"
    /\ out_pipe > 0
    /\ out_pipe' = out_pipe - 1
    /\ result' = Read(Append(result.lines, Len(result.lines) + 1))
    /\ UNCHANGED <<pc, exc, open_str, to_write, observed, object, system, run,
                   kid, in_pipe, err_pipe, in_open, written>>

\* the loop reads the end of the stream: the child has exited
ReadEOF ==
    /\ pc = "reading"
    /\ out_pipe = 0
    /\ child = "exited"
    /\ pc' = "ready"
    /\ UNCHANGED <<exc, caller, object, system, run, kid, pipes>>

\* PerlIO.err_fo: the caller reads the property
ErrFo ==
    /\ pc = "ready"
    /\ observed = NoStream
    /\ IF proc = "None"
       THEN Raise("AttributeError", "err_fo raised")
       ELSE /\ observed' = "proc.stderr"
            /\ UNCHANGED <<pc, exc, open_str, to_write, result, object, system,
                           run, kid, pipes>>

(***************************************************************************)
(* PerlIO.close.  A file object's close() writes out what is buffered.     *)
(***************************************************************************)
\* the file system after the buffered lines buf are written to file name,
\* opened in mode: "w" and "a" write at the end, "r+" from the start
Flush(f, name, mode, buf) ==
    IF mode = "r+"
    THEN [f EXCEPT ![name] = buf \o SubSeq(@, Len(buf) + 1, Len(@))]
    ELSE [f EXCEPT ![name] = @ \o buf]

\* close that closes the stream self._fo whatever backs the wrapper, and
\* does not wait for the child
close_handle(pending) ==
    IF fo = "None"
    THEN Raise("AttributeError", "close raised")
    ELSE /\ fo_closed' = TRUE
         /\ fs' = IF Writable THEN Flush(fs, fname, fmode, wbuf) ELSE fs
         /\ wbuf' = <<>>
         /\ in_open' = FALSE
         /\ pc' = "closed"
         /\ exc' = pending
         /\ UNCHANGED <<caller, fo, fname, fmode, proc, argv, diag, locked,
                        executable, plan, run, kid, in_pipe, out_pipe, err_pipe,
                        written>>

\* self.close(); pending is the exception the caller raises again when
\* close has returned
close(pending) ==
    IF proc = "None"
    THEN IF fo = "None"
         THEN Raise("AttributeError", "close raised")
         ELSE /\ fo_closed' = TRUE
              /\ fs' = IF Writable THEN Flush(fs, fname, fmode, wbuf) ELSE fs
              /\ wbuf' = <<>>
              /\ pc' = "closed"
              /\ exc' = pending
              /\ UNCHANGED <<caller, fo, fname, fmode, proc, argv, diag, locked,
                             executable, plan, run, kid, pipes>>
    ELSE \* self._proc.communicate() begins: it closes the child's input
         /\ in_open' = FALSE
         /\ pc' = "communicate"
         /\ exc' = pending
         /\ UNCHANGED <<caller, object, system, run, kid, in_pipe, out_pipe,
                        err_pipe, written>>

\* pio.close(), once the caller has written its lines
Close ==
    /\ pc = "ready"
    /\ to_write = <<>>
    /\ close("none")

\* PerlIO.__enter__: the with statement is entered
Enter ==
    /\ pc = "ready"
    /\ to_write = <<>>
    /\ pc' = "with"
    /\ UNCHANGED <<exc, caller, object, system, run, kid, pipes>>

\* how the body of a with statement may end: normally, or raising
BodyOutcomes == {"none", "BodyError"}

\* PerlIO.__exit__: the body of the with statement has ended
Exit ==
    /\ pc = "with"
    /\ \E body \in BodyOutcomes : close(body)

\* communicate() reads what the child wrote to its output and error pipes
CommunicateRead ==
    /\ pc = "communicate"
    /\ \/ /\ out_pipe > 0
          /\ out_pipe' = out_pipe - 1
          /\ UNCHANGED err_pipe
       \/ /\ err_pipe > 0
          /\ err_pipe' = err_pipe - 1
          /\ UNCHANGED out_pipe
    /\ UNCHANGED <<pc, exc, caller, object, system, run, kid, in_pipe, in_open,
                   written>>

\* communicate() returns when both pipes are at their end and wait() has
\* collected the child
CommunicateReturn ==
    /\ pc = "communicate"
    /\ child = "exited"
    /\ out_pipe = 0
    /\ err_pipe = 0
    /\ child' = "reaped"
    /\ pc' = "closed"
    /\ fo_closed' = TRUE
    /\ UNCHANGED <<exc, caller, fo, fname, fmode, wbuf, proc, argv, system, run,
                   child_op, out_left, err_left, consumed, pipes>>

(***************************************************************************)
(* The child process.  It is sequential: it is in one system call at a     *)
(* time, and a write to a full pipe or a read of an empty one blocks it.   *)
(* It reads its standard input to the end when that is a pipe, and exits   *)
(* when it has written what its program writes.                            *)
(***************************************************************************)
StdinPiped == fo = "proc.stdin"
StdoutPiped == fo = "proc.stdout"

\* the system calls the child may make next
ChildCalls ==
    {c \in {"write_out", "write_err", "read"} :
        /\ c = "write_out" => out_left > 0
        /\ c = "write_err" => err_left > 0
        /\ c = "read" => StdinPiped /\ (in_pipe > 0 \/ in_open)}

ChildCall ==
    /\ child = "running"
    /\ child_op = "idle"
    /\ child_op' \in ChildCalls
    /\ UNCHANGED <<pc, exc, caller, object, system, run, child, out_left,
                   err_left, consumed, pipes>>

\* the child's standard output is a pipe only when the wrapper reads it
ChildWriteOut ==
    /\ child = "running"
    /\ child_op = "write_out"
    /\ IF StdoutPiped
       THEN /\ out_pipe < PipeCap
            /\ out_pipe' = out_pipe + 1
       ELSE UNCHANGED out_pipe
    /\ out_left' = out_left - 1
    /\ child_op' = "idle"
    /\ UNCHANGED <<pc, exc, caller, object, system, run, child, err_left,
                   consumed, in_pipe, err_pipe, in_open, written>>

ChildWriteErr ==
    /\ child = "running"
    /\ child_op = "write_err"
    /\ err_pipe < PipeCap
    /\ err_pipe' = err_pipe + 1
    /\ err_left' = err_left - 1
    /\ child_op' = "idle"
    /\ UNCHANGED <<pc, exc, caller, object, system, run, child, out_left,
                   consumed, in_pipe, out_pipe, in_open, written>>

\* a read returns a chunk, or the end of the input once the parent closed it
ChildRead ==
    /\ child = "running"
    /\ child_op = "read"
    /\ \/ /\ in_pipe > 0
          /\ in_pipe' = in_pipe - 1
          /\ consumed' = consumed + 1
       \/ /\ in_pipe = 0
          /\ ~in_open
          /\ UNCHANGED <<in_pipe, consumed>>
    /\ child_op' = "idle"
    /\ UNCHANGED <<pc, exc, caller, object, system, run, child, out_left,
                   err_left, out_pipe, err_pipe, in_open, written>>

ChildExit ==
    /\ child = "running"
    /\ child_op = "idle"
    /\ out_left = 0
    /\ err_left = 0
    /\ StdinPiped => (in_pipe = 0 /\ ~in_open)
    /\ child' = "exited"
    /\ UNCHANGED <<pc, exc, caller, object, system, run, child_op, out_left,
                   err_left, consumed, pipes>>

(***************************************************************************)
(* Spec: a caller constructs one wrapper from any descriptor and uses it.  *)
(* In the file system the file f exists and the path ff is refused.        *)
(***************************************************************************)
NoWrapper ==
    /\ exc = "none"
    /\ result = Unread
    /\ observed = NoStream
    /\ fo = "None"
    /\ fo_closed = FALSE
    /\ fname = <<>>
    /\ fmode = ""
    /\ wbuf = <<>>
    /\ proc = "None"
    /\ argv = <<>>
    /\ diag = <<>>
    /\ child = "none"
    /\ child_op = "idle"
    /\ out_left = 0
    /\ err_left = 0
    /\ consumed = 0
    /\ in_pipe = 0
    /\ out_pipe = 0
    /\ err_pipe = 0
    /\ in_open = FALSE
    /\ written = 0

NoRun ==
    /\ phase = "none"
    /\ path = <<>>
    /\ sessions = 0
    /\ expected = <<>>
    /\ lineno = 0

\* n lines, numbered from k + 1 as the test numbers the lines it writes
NextLines(k, n) == [i \in 1..n |-> k + i]

InitialFiles == (<<"f">> :> <<0>>)
Refused == {<<"f", "f">>}

Init ==
    /\ NoWrapper
    /\ NoRun
    /\ pc = "init"
    /\ open_str \in Descriptors
    /\ to_write \in {NextLines(0, n) : n \in 0..1}
    /\ executable \in BOOLEAN
    /\ plan = [out |-> 1, err |-> 1]
    /\ fs = InitialFiles
    /\ locked = Refused

Next ==
    \/ New
    \/ WriteLine
    \/ ReadAll
    \/ ReadChunk
    \/ ReadEOF
    \/ ErrFo
    \/ Close
    \/ Enter
    \/ Exit
    \/ CommunicateRead
    \/ CommunicateReturn
    \/ ChildCall
    \/ ChildWriteOut
    \/ ChildWriteErr
    \/ ChildRead
    \/ ChildExit

Spec == Init /\ [][Next]_vars

(***************************************************************************)
(* SpecPipe: a caller opens one of a few descriptors, a pipe from or to a  *)
(* command or a file, on a child that writes any number of chunks to its   *)
(* output and error streams, writes any number of lines and uses the       *)
(* wrapper.                                                                *)
(***************************************************************************)
PipeSessions ==
    {<<"f", "|">>, <<"|", "f">>, <<">", "f">>, <<"f">>}

Plans == [out : 0..MaxData, err : 0..MaxData]

InitPipe ==
    /\ NoWrapper
    /\ NoRun
    /\ pc = "init"
    /\ open_str \in PipeSessions
    /\ to_write \in {NextLines(0, n) : n \in 0..MaxData}
    /\ executable = TRUE
    /\ plan \in Plans
    /\ fs = InitialFiles
    /\ locked = Refused

SpecPipe == InitPipe /\ [][Next]_vars

(***************************************************************************)
(* SpecFile: the run of TestPerlIO.file_test on any path P.  Sessions open *)
(* "> P" or ">> P", write lines and close, each closed before the next     *)
(* begins; then "< P" or P is opened and read.  The file system is empty   *)
(* at first and refuses no path; a command that is spawned writes nothing. *)
(***************************************************************************)
Paths == Strings(MaxPath)

WriteTo(P) == <<">", " ">> \o P
AppendTo(P) == <<">", ">", " ">> \o P
ReadFrom(P) == <<"<", " ">> \o P

InitFile ==
    /\ NoWrapper
    /\ pc = "idle"
    /\ phase = "sessions"
    /\ path \in Paths
    /\ sessions = 0
    /\ expected = <<>>
    /\ lineno = 0
    /\ open_str = <<>>
    /\ to_write = <<>>
    /\ executable = TRUE
    /\ plan = [out |-> 0, err |-> 0]
    /\ fs = <<>>
    /\ locked = {}

\* a session begins: the caller chooses the mode and the lines to write
SessionBegin ==
    /\ pc = "idle"
    /\ phase = "sessions"
    /\ sessions < MaxSessions
    /\ \E append \in BOOLEAN, n \in 0..MaxLines :
          LET ls == NextLines(lineno, n)
          IN  /\ open_str' = IF append THEN AppendTo(path) ELSE WriteTo(path)
              /\ to_write' = ls
              /\ expected' = (IF append THEN expected ELSE <<>>) \o ls
              /\ lineno' = lineno + n
    /\ sessions' = sessions + 1
    /\ pc' = "init"
    /\ UNCHANGED <<exc, result, observed, object, system, phase, path, kid,
                   pipes>>

SessionWrite ==
    /\ phase = "sessions"
    /\ WriteLine

SessionClose ==
    /\ phase = "sessions"
    /\ Close

\* the session's close has returned
SessionEnd ==
    /\ pc = "closed"
    /\ phase = "sessions"
    /\ pc' = "idle"
    /\ UNCHANGED <<exc, caller, object, system, run, kid, pipes>>

\* the read-back begins, by "< P" or by P
ReadBack ==
    /\ pc = "idle"
    /\ phase = "sessions"
    /\ sessions >= 1
    /\ open_str' \in {ReadFrom(path), path}
    /\ phase' = "readback"
    /\ pc' = "init"
    /\ UNCHANGED <<exc, to_write, result, observed, object, system, path,
                   sessions, expected, lineno, kid, pipes>>

ReadBackRead ==
    /\ phase = "readback"
    /\ ReadAll

NextFile ==
    \/ SessionBegin
    \/ New
    \/ SessionWrite
    \/ SessionClose
    \/ SessionEnd
    \/ ReadBack
    \/ ReadBackRead
    \/ ReadEOF
    \/ CommunicateReturn
    \/ ChildExit

SpecFile == InitFile /\ [][NextFile]_vars

(***************************************************************************)
(* The properties.                                                         *)
(***************************************************************************)
\* the constructor has been called, and has returned a wrapper
Constructed == pc \notin {"idle", "init"}
Returned == pc \notin {"idle", "init", "raised"}

\* the branch the constructor took
Taken == Dispatch(open_str)
IsFileCall == Taken.call = "_open_file"
IsPipeCall == Taken.call \in {"_rd_open_pipe", "_wr_open_pipe"}

\* the classification of a trimmed descriptor as the table of modes has it
TableCall(s) ==
    IF s[Len(s)] = "|" THEN Call("_rd_open_pipe", SubSeq(s, 1, Len(s) - 1), "")
    ELSE IF s[1] = "|" THEN Call("_wr_open_pipe", From(s, 1), "")
    ELSE IF Prefix(s, 2) = <<">", ">">> THEN Call("_open_file", From(s, 2), "a")
    ELSE IF s[1] = ">" THEN Call("_open_file", From(s, 1), "w")
    ELSE IF s[1] = "<" THEN Call("_open_file", From(s, 1), "r")
    ELSE IF Prefix(s, 2) = <<"+", ">">> \/ Prefix(s, 2) = <<"+", "<">>
    THEN Call("_open_file", From(s, 2), "r+")
    ELSE Call("_open_file", s, "r")

\* C1: every descriptor that is not empty once trimmed is classified into
\* the first matching row of: ends with | (read from process), starts with
\* | (write to process), starts with >> (append), starts with > (write),
\* starts with < (read), starts with +> or +< (read-write), anything else
\* (read of the whole string as a path); none is left unclassified.
C1_Classified ==
    (Constructed /\ strip(open_str) # <<>>)
        => Taken = TableCall(strip(open_str))

\* C2: the descriptor "-" binds the stream to the standard input and ">-"
\* to the standard output; no file is opened and no process is spawned.
C2_StandardStreams ==
    /\ (Constructed /\ strip(open_str) = <<"-">>)
          => (fo = "sys.stdin" /\ proc = "None" /\ fname = <<>>
              /\ DOMAIN fs = DOMAIN InitialFiles)
    /\ (Constructed /\ strip(open_str) = <<">", "-">>)
          => (fo = "sys.stdout" /\ proc = "None" /\ fname = <<>>
              /\ DOMAIN fs = DOMAIN InitialFiles)

\* the open() of the descriptor's file failed
OpenFailed ==
    /\ Constructed
    /\ IsFileCall
    /\ OpenFails(strip(Taken.arg), Taken.mode, InitialFiles, Refused)

\* C3: when the open of a file-mode descriptor fails, the constructor
\* returns without raising, prints a diagnostic, and leaves fo None and no
\* subprocess.
C3_OpenFailure ==
    OpenFailed
        => (pc # "raised" /\ fo = "None" /\ proc = "None" /\ child = "none"
            /\ diag = <<"failed to open">>)

\* a nonexistent file opened for reading: the constructor has returned
C3_Witness ==
    /\ open_str = <<"<", "-">>
    /\ pc = "ready"
    /\ fo = "None"
    /\ diag = <<"failed to open">>

\* the spawn of the descriptor's command failed: the command cannot be
\* tokenised, or Popen raised
SpawnFailed ==
    /\ Constructed
    /\ IsPipeCall
    /\ LET split == shlex_split(parse_command(Taken.arg))
       IN  \/ split.error # "none"
           \/ PopenRaises(split.tokens, executable) # "none"

\* C4: when the spawn of a process descriptor fails, the constructor does
\* not raise: it prints a diagnostic and returns a wrapper whose fo is None.
C4_SpawnFailure ==
    SpawnFailed => (pc # "raised" /\ fo = "None" /\ diag # <<>>)

\* C5: the command text C left after the pipe marker is spawned as
\* [sh, -c, C] when it holds one of | < > backquote ; and as the shell-style
\* split of C when it holds none.
C5_ArgumentVector ==
    (Constructed /\ IsPipeCall /\ proc = "Popen")
        => argv = IF HasShellChar(Taken.arg)
                  THEN <<<<"s", "h">>, <<"-", "c">>, Taken.arg>>
                  ELSE shlex_split(Taken.arg).tokens

\* the read-back of a file session run has read the stream to its end
ReadBackDone == phase = "readback" /\ pc = "ready" /\ result.read

\* C6: for every file path P, after sessions that open "> P" or ">> P",
\* write lines and close, opening "< P" or P and reading yields the lines
\* of the most recent write session followed by those of the later append
\* sessions, in the order written.
C6_RoundTrip == ReadBackDone => result.lines = expected

\* a path the descriptor notation can name: trimmed of white space it is
\* not empty and has no | at its end
PlainPath(P) ==
    LET T == strip(P)
    IN  T # <<>> /\ T[Len(T)] # "|"

\* a path that names itself when it is the whole descriptor
BarePath(P) ==
    LET T == strip(P)
    IN  /\ PlainPath(P)
        /\ T[1] \notin {"|", ">", "<"}
        /\ Prefix(T, 2) \notin {<<"+", ">">>, <<"+", "<">>}
        /\ T # <<"-">>

\* C6, amended: for the paths that, trimmed of white space, are not empty
\* and do not end with |, no call of the run raises and the read-back
\* yields those lines; the read-back by the bare path P does so when
\* moreover the trimmed P does not start with |, >, <, +> or +< and is not
\* "-".
C6_RoundTripPlainPaths ==
    (PlainPath(path) /\ (phase = "readback" /\ open_str = path => BarePath(path)))
        => (exc = "none" /\ C6_RoundTrip)

\* a write session and an append session on P, read back through the bare
\* path
C6_Witness ==
    /\ ReadBackDone
    /\ open_str = path
    /\ sessions = 2
    /\ result.lines = <<1, 2>>
    /\ expected = <<1, 2>>

\* C7: when close has returned on a process-backed wrapper the child has
\* exited and has consumed all that was written to its input; on a
\* file-backed wrapper close closes the stream and touches no process.
C7_CloseWaits ==
    pc = "closed"
        => IF proc = "Popen"
           THEN child = "reaped" /\ in_pipe = 0 /\ consumed = written
                /\ out_left = 0 /\ err_left = 0
           ELSE fo_closed /\ wbuf = <<>> /\ child = "none"

\* lines were written to a command and close has returned
C7_Witness ==
    /\ pc = "closed"
    /\ fo = "proc.stdin"
    /\ written = MaxData
    /\ consumed = MaxData
    /\ child = "reaped"

\* C8: a wrapper the constructor returned has exactly one of a file stream
\* and a process-backed stream; the error stream is there if and only if
\* the wrapper is process-backed, and reading it on another wrapper gives
\* no stream and no failure.
C8_OneStream ==
    Returned
        => /\ (proc = "None" /\ fo # "None") # (proc = "Popen" /\ fo # "None")
           /\ pc # "err_fo raised"
           /\ observed = "proc.stderr" => proc = "Popen"

\* C9: close returns without raising on every wrapper the constructor
\* returned, so that leaving a with statement leaves the outcome of its
\* body as it was.
C9_CloseReturns ==
    /\ pc # "close raised"
    /\ pc = "closed" => exc \in BodyOutcomes

\* the steps of a session: the caller's, those of communicate() and the
\* child's
SessionStep ==
    \/ WriteLine
    \/ ReadAll
    \/ ReadChunk
    \/ ReadEOF
    \/ Close
    \/ Exit
    \/ CommunicateRead
    \/ CommunicateReturn
    \/ ChildCall
    \/ ChildWriteOut
    \/ ChildWriteErr
    \/ ChildRead
    \/ ChildExit

=============================================================================
